---- MODULE Spec2Model ----
(***************************************************************************)
(* Near-Earth objects: ingestion (extract.py), entities (models.py) and    *)
(* serialization (write.py).                                               *)
(*                                                                         *)
(* Python values are tagged records, so that None, '', False and nan stay  *)
(* distinct values.  A call that raises is a result whose err field names  *)
(* the exception; err = "" is a normal return.                             *)
(***************************************************************************)
EXTENDS Integers, Sequences, FiniteSets, TLC

VARIABLES neoFile, neoResult, fullnameRead,
          cadDoc, cadResult,
          results, jsonFile, jsonCall, csvFile, csvCall

vars == <<neoFile, neoResult, fullnameRead, cadDoc, cadResult,
          results, jsonFile, jsonCall, csvFile, csvCall>>

(***************************************************************************)
(* Bounds                                                                  *)
(***************************************************************************)
MaxRows == 2
MaxRecords == 2
MaxResults == 2

(***************************************************************************)
(* Python values                                                           *)
(***************************************************************************)
None == [t |-> "None"]
Str(s) == [t |-> "str", s |-> s]
Bool(b) == [t |-> "bool", b |-> b]
Float(n) == [t |-> "float", nan |-> FALSE, n |-> n]
NaN == [t |-> "float", nan |-> TRUE, n |-> 0]

\* Python's == on the values above: a nan is not equal to anything, itself
\* included; values of different types are unequal.
PyEq(a, b) ==
    IF a.t = "float" /\ b.t = "float"
    THEN ~a.nan /\ ~b.nan /\ a.n = b.n
    ELSE a = b

Return(v) == [err |-> "", value |-> v]
Raise(e) == [err |-> e, value |-> None]

Range(f) == {f[i] : i \in DOMAIN f}

\* The decimal literals of the model, as hundred-thousandths.
FloatLiteral(s) ==
    CASE s = "16.84" -> 1684000
      [] s = "0.0924" -> 9240
      [] s = "0.5" -> 50000
      [] s = "5.57" -> 557000
      [] s = "10.4" -> 1040000
      [] OTHER -> -1

\* float(x): a float is returned as it is, a string is parsed, None raises
\* TypeError, an unparsable string raises ValueError.
float(x) ==
    CASE x.t = "float" -> Return(x)
      [] x.t = "bool" -> Return(Float(IF x.b THEN 100000 ELSE 0))
      [] x.t = "None" -> Raise("TypeError")
      [] x.t = "str" ->
            IF x.s = "nan" THEN Return(NaN)
            ELSE IF FloatLiteral(x.s) >= 0 THEN Return(Float(FloatLiteral(x.s)))
            ELSE Raise("ValueError")

(***************************************************************************)
(* models.py: NearEarthObject                                              *)
(***************************************************************************)
NearEarthObject(designation, name, diameter, hazardous) ==
    [designation |-> designation,
     name |-> name,
     diameter |-> diameter,
     hazardous |-> hazardous,
     approaches |-> <<>>]

\* The fullname property: the right-hand side is evaluated first (str + str,
\* TypeError when an operand is None), then assigned to self.fullname, which
\* is the property itself and has no setter: the assignment raises
\* AttributeError and the return statement is never reached.  self comes back
\* as the call leaves it.
fullname(self) ==
    IF self.designation.t # "str" \/ self.name.t # "str"
    THEN [err |-> "TypeError", value |-> None, self |-> self]
    ELSE LET rhs == Str(self.designation.s \o "_" \o self.name.s)
         IN  [err |-> "AttributeError", value |-> None, self |-> self]

(***************************************************************************)
(* csv.DictReader                                                          *)
(***************************************************************************)
\* The dict of one row: fieldnames zipped with the cells (a later duplicate
\* field name wins), missing cells filled with None (restval), surplus cells
\* kept as a list under the key None (restkey), here the field rest.
DictRow(fieldnames, row) ==
    [d |-> [k \in Range(fieldnames) |->
              LET i == CHOOSE j \in 1..Len(fieldnames) :
                          /\ fieldnames[j] = k
                          /\ \A m \in 1..Len(fieldnames) : fieldnames[m] = k => m <= j
              IN  IF i <= Len(row) THEN Str(row[i]) ELSE None],
     rest |-> IF Len(row) > Len(fieldnames)
              THEN SubSeq(row, Len(fieldnames) + 1, Len(row))
              ELSE <<>>]

\* Iterating the reader: the first line is the header, and a row without any
\* cell (a blank line) is skipped.
RECURSIVE DictReaderRows(_, _)
DictReaderRows(fieldnames, rows) ==
    IF rows = <<>> THEN <<>>
    ELSE IF Head(rows) = <<>> THEN DictReaderRows(fieldnames, Tail(rows))
    ELSE <<DictRow(fieldnames, Head(rows))>> \o DictReaderRows(fieldnames, Tail(rows))

DictReader(f) == DictReaderRows(f.header, f.rows)

(***************************************************************************)
(* extract.py: load_neos                                                   *)
(***************************************************************************)
\* Variant: every marker other than "N" counts as hazardous.
NormaliseElem_AnyMarker(elem) ==
    IF "pha" \notin DOMAIN elem THEN Raise("KeyError")
    ELSE LET e1 == [elem EXCEPT !["pha"] = Bool(~PyEq(elem["pha"], Str("N")))] IN
    IF "name" \notin DOMAIN e1 THEN Raise("KeyError")
    ELSE LET e2 == IF PyEq(e1["name"], Str(""))
                   THEN [e1 EXCEPT !["name"] = None] ELSE e1 IN
    IF "diameter" \notin DOMAIN e2 THEN Raise("KeyError")
    ELSE Return(IF PyEq(e2["diameter"], Str(""))
                THEN [e2 EXCEPT !["diameter"] = NaN] ELSE e2)

\* Variant: a blank name is kept as the empty string.
NormaliseElem_KeepBlankName(elem) ==
    IF "pha" \notin DOMAIN elem THEN Raise("KeyError")
    ELSE LET e1 == [elem EXCEPT !["pha"] = Bool(PyEq(elem["pha"], Str("Y")))] IN
    IF "name" \notin DOMAIN e1 THEN Raise("KeyError")
    ELSE IF "diameter" \notin DOMAIN e1 THEN Raise("KeyError")
    ELSE Return(IF PyEq(e1["diameter"], Str(""))
                THEN [e1 EXCEPT !["diameter"] = NaN] ELSE e1)

\* The body of the for loop: elem['pha'] becomes a bool, a blank name becomes
\* None and a blank diameter becomes nan.  Reading a key the row's dict does
\* not have raises KeyError.
NormaliseElem(elem) ==
    IF "pha" \notin DOMAIN elem THEN Raise("KeyError")
    ELSE LET e1 == [elem EXCEPT !["pha"] = Bool(PyEq(elem["pha"], Str("Y")))] IN
    IF "name" \notin DOMAIN e1 THEN Raise("KeyError")
    ELSE LET e2 == IF PyEq(e1["name"], Str(""))
                   THEN [e1 EXCEPT !["name"] = None] ELSE e1 IN
    IF "diameter" \notin DOMAIN e2 THEN Raise("KeyError")
    ELSE Return(IF PyEq(e2["diameter"], Str(""))
                THEN [e2 EXCEPT !["diameter"] = NaN] ELSE e2)

\* Variant: each row is inserted at the front of the collection.
RECURSIVE CollectNeo_Prepend(_, _)
CollectNeo_Prepend(elems, collection_of_neo) ==
    IF elems = <<>> THEN Return(collection_of_neo)
    ELSE LET r == NormaliseElem(Head(elems).d) IN
         IF r.err # "" THEN r
         ELSE CollectNeo_Prepend(Tail(elems), <<r.value>> \o collection_of_neo)

\* The for loop: the normalised rows in order, or the first error.
RECURSIVE CollectNeo(_, _)
CollectNeo(elems, collection_of_neo) ==
    IF elems = <<>> THEN Return(collection_of_neo)
    ELSE LET r == NormaliseElem(Head(elems).d) IN
         IF r.err # "" THEN r
         ELSE CollectNeo(Tail(elems), Append(collection_of_neo, r.value))

\* One element of the returned list: the arguments are evaluated left to
\* right, then the object is constructed.
BuildNeo(neo) ==
    IF "pdes" \notin DOMAIN neo THEN Raise("KeyError")
    ELSE LET diameter == float(neo["diameter"]) IN
         IF diameter.err # "" THEN diameter
         ELSE Return(NearEarthObject(neo["pdes"], neo["name"],
                                     diameter.value, neo["pha"].b))

RECURSIVE BuildNeos(_, _)
BuildNeos(collection_of_neo, built) ==
    IF collection_of_neo = <<>> THEN Return(built)
    ELSE LET r == BuildNeo(Head(collection_of_neo)) IN
         IF r.err # "" THEN r
         ELSE BuildNeos(Tail(collection_of_neo), Append(built, r.value))

load_neos(f) ==
    LET collected == CollectNeo(DictReader(f), <<>>) IN
    IF collected.err # "" THEN collected
    ELSE BuildNeos(collected.value, <<>>)

(***************************************************************************)
(* The tabular files of the model                                          *)
(***************************************************************************)
ExpectedColumns == {"pdes", "name", "diameter", "pha"}

Headers ==
    { <<"pdes", "name", "diameter", "pha">>,
      <<"pha", "extra", "diameter", "name", "pdes">>,
      <<"name", "diameter", "pha">>,
      <<"pdes", "diameter", "pha">>,
      <<"pdes", "name", "pha">>,
      <<"pdes", "name", "diameter">>,
      <<>> }

ColumnValues(col) ==
    CASE col = "pdes" -> {"433", "1036"}
      [] col = "name" -> {"", "Eros"}
      [] col = "diameter" -> {"", "16.84", "abc"}
      [] col = "pha" -> {"Y", "N", ""}
      [] OTHER -> {"x"}

\* The value the shortened and lengthened rows carry in a column.
SampleValue(col) ==
    CASE col = "pdes" -> "433"
      [] col = "name" -> "Eros"
      [] col = "diameter" -> ""
      [] col = "pha" -> "Y"
      [] OTHER -> "x"

RECURSIVE FullRows(_, _)
FullRows(h, k) ==
    IF k = 0 THEN {<<>>}
    ELSE {Append(r, v) : r \in FullRows(h, k - 1), v \in ColumnValues(h[k])}

SampleRow(h) == [i \in 1..Len(h) |-> SampleValue(h[i])]

\* Rows of the header's length, every prefix of the sample row (the blank line
\* among them) and the sample row with one surplus cell.
RowsOf(h) ==
    FullRows(h, Len(h))
      \cup {SubSeq(SampleRow(h), 1, k) : k \in 0..Len(h)}
      \cup {Append(SampleRow(h), "surplus")}

\* The sequences over S of length n.
SeqsOfLen(S, n) == [1..n -> S]

NotCalled == [called |-> FALSE, err |-> "", value |-> <<>>]
NotRead == [called |-> FALSE, idx |-> 0, err |-> "", value |-> None]

(***************************************************************************)
(* helpers.py: the calendar string rule                                    *)
(***************************************************************************)
datetime(year, month, day, hour, minute) ==
    [t |-> "datetime", year |-> year, month |-> month, day |-> day,
     hour |-> hour, minute |-> minute]

MonthAbbr ==
    <<"Jan", "Feb", "Mar", "Apr", "May", "Jun",
      "Jul", "Aug", "Sep", "Oct", "Nov", "Dec">>

\* The compact calendar strings of the model and the date-time each denotes;
\* a trailing seconds component is ignored, any other string is malformed.
cd_to_datetime(calendar_date) ==
    IF calendar_date.t # "str" THEN Raise("TypeError")
    ELSE CASE calendar_date.s = "1900-Dec-27 01:30" -> Return(datetime(1900, 12, 27, 1, 30))
           [] calendar_date.s = "1900-Dec-27 01:30:45" -> Return(datetime(1900, 12, 27, 1, 30))
           [] calendar_date.s = "2020-Jan-01 00:00" -> Return(datetime(2020, 1, 1, 0, 0))
           [] calendar_date.s = "2020-Jan-01 09:05" -> Return(datetime(2020, 1, 1, 9, 5))
           [] OTHER -> Raise("ValueError")

Pad2(n) == IF n < 10 THEN "0" \o ToString(n) ELSE ToString(n)

\* YYYY-Mon-DD HH:MM, minute precision.
datetime_to_str(dt) ==
    ToString(dt.year) \o "-" \o MonthAbbr[dt.month] \o "-" \o Pad2(dt.day)
        \o " " \o Pad2(dt.hour) \o ":" \o Pad2(dt.minute)

(***************************************************************************)
(* models.py: CloseApproach                                                *)
(***************************************************************************)
CloseApproach(time, distance, velocity, designation, neo) ==
    LET parsed == cd_to_datetime(time) IN
    IF parsed.err # "" THEN parsed
    ELSE Return([_designation |-> designation,
                 time |-> parsed.value,
                 distance |-> distance,
                 velocity |-> velocity,
                 neo |-> neo])

(***************************************************************************)
(* extract.py: load_approaches                                             *)
(***************************************************************************)
Min(a, b) == IF a < b THEN a ELSE b

\* dict(zip(fields, ca)): zip stops at the shorter of the two, and a later
\* duplicate field name wins.
ZipDict(fields, ca) ==
    LET n == Min(Len(fields), Len(ca)) IN
    [k \in {fields[i] : i \in 1..n} |->
        ca[CHOOSE j \in 1..n :
              /\ fields[j] = k
              /\ \A m \in 1..n : fields[m] = k => m <= j]]

\* One element of the returned list: the keyword arguments are evaluated in
\* the order they are written, then the constructor runs.
BuildApproach(ca) ==
    IF "cd" \notin DOMAIN ca THEN Raise("KeyError")
    ELSE IF "dist" \notin DOMAIN ca THEN Raise("KeyError")
    ELSE LET distance == float(ca["dist"]) IN
    IF distance.err # "" THEN distance
    ELSE IF "v_rel" \notin DOMAIN ca THEN Raise("KeyError")
    ELSE LET velocity == float(ca["v_rel"]) IN
    IF velocity.err # "" THEN velocity
    ELSE IF "des" \notin DOMAIN ca THEN Raise("KeyError")
    ELSE CloseApproach(ca["cd"], distance.value, velocity.value, ca["des"], None)

RECURSIVE BuildApproaches(_, _)
BuildApproaches(collection_of_ca, built) ==
    IF collection_of_ca = <<>> THEN Return(built)
    ELSE LET r == BuildApproach(Head(collection_of_ca)) IN
         IF r.err # "" THEN r
         ELSE BuildApproaches(Tail(collection_of_ca), Append(built, r.value))

\* Variant: the values are taken by position, in the usual order of the
\* fields, whatever the document's field list says.
load_approaches_Positional(content) ==
    IF ~content.hasFields THEN Raise("KeyError")
    ELSE LET fields == <<"des", "cd", "dist", "v_rel", "h">>
             collection_of_ca == [i \in 1..Len(content.data) |->
                                     ZipDict(fields, content.data[i])]
         IN  BuildApproaches(collection_of_ca, <<>>)

load_approaches(content) ==
    IF ~content.hasFields THEN Raise("KeyError")
    ELSE LET fields == content.fields
             collection_of_ca == [i \in 1..Len(content.data) |->
                                     ZipDict(fields, content.data[i])]
         IN  BuildApproaches(collection_of_ca, <<>>)

(***************************************************************************)
(* The structured documents of the model                                   *)
(***************************************************************************)
FieldLists ==
    { <<"des", "cd", "dist", "v_rel", "h">>,
      <<"h", "v_rel", "dist", "cd", "des">>,
      <<"des", "cd", "v_rel", "dist", "h">>,
      <<"des", "cd", "dist">> }

FieldValues(field) ==
    CASE field = "des" -> {Str("433"), Str("1036")}
      [] field = "cd" -> {Str("1900-Dec-27 01:30:45"), Str("2020-Jan-01 09:05"), Str("bad")}
      [] field = "dist" -> {Str("0.0924"), Str("0.5")}
      [] field = "v_rel" -> {Str("5.57")}
      [] OTHER -> {None}

SampleFieldValue(field) ==
    CASE field = "des" -> Str("433")
      [] field = "cd" -> Str("1900-Dec-27 01:30")
      [] field = "dist" -> Str("0.0924")
      [] field = "v_rel" -> Str("5.57")
      [] OTHER -> Str("10.4")

RECURSIVE FullRecords(_, _)
FullRecords(fields, k) ==
    IF k = 0 THEN {<<>>}
    ELSE {Append(r, v) : r \in FullRecords(fields, k - 1), v \in FieldValues(fields[k])}

SampleRecord(fields) == [i \in 1..Len(fields) |-> SampleFieldValue(fields[i])]

\* Value arrays of the field list's length, every prefix of the sample array
\* and the sample array with one surplus value.
RecordsOf(fields) ==
    FullRecords(fields, Len(fields))
      \cup {SubSeq(SampleRecord(fields), 1, k) : k \in 0..Len(fields)}
      \cup {Append(SampleRecord(fields), Str("surplus"))}

(***************************************************************************)
(* Files written by write.py: the text is the sequence of items written,   *)
(* a row per item for csv.writer, one encoded document for json.dump.      *)
(***************************************************************************)
NoFile == [exists |-> FALSE, text |-> <<>>]
OldFile == [exists |-> TRUE, text |-> <<"previous content">>]

\* open(filename, 'w'): the file exists and is empty.
OpenForWriting == [exists |-> TRUE, text |-> <<>>]

\* repr of a finite float of the model (hundred-thousandths): the integer part,
\* a point and the fraction without trailing zeros, at least one digit.
RECURSIVE Digits(_, _)
Digits(n, width) ==
    IF width = 1 THEN ToString(n)
    ELSE Digits(n \div 10, width - 1) \o ToString(n % 10)

RECURSIVE FractionDigits(_, _)
FractionDigits(frac, width) ==
    IF width = 1 THEN ToString(frac)
    ELSE IF frac % 10 = 0 THEN FractionDigits(frac \div 10, width - 1)
    ELSE Digits(frac, width)

FloatRepr(x) ==
    IF x.nan THEN "nan"
    ELSE ToString(x.n \div 100000) \o "." \o FractionDigits(x.n % 100000, 5)

\* str(x), as csv.writer applies it to a cell; None is written as ''.
CsvCell(x) ==
    CASE x.t = "str" -> x.s
      [] x.t = "None" -> ""
      [] x.t = "float" -> FloatRepr(x)
      [] x.t = "bool" -> IF x.b THEN "True" ELSE "False"

\* The JSON token json.dump writes for a leaf value, and the value json.load
\* reads from a token.  NaN is written as the bare token NaN.
JsonToken(x) ==
    CASE x.t = "str" -> [j |-> "string", chars |-> x.s]
      [] x.t = "None" -> [j |-> "null"]
      [] x.t = "bool" -> [j |-> IF x.b THEN "true" ELSE "false"]
      [] x.t = "float" -> IF x.nan THEN [j |-> "NaN"]
                          ELSE [j |-> "number", digits |-> FloatRepr(x)]

JsonValue(tok) ==
    CASE tok.j = "string" -> Str(tok.chars)
      [] tok.j = "null" -> None
      [] tok.j = "true" -> Bool(TRUE)
      [] tok.j = "false" -> Bool(FALSE)
      [] tok.j = "NaN" -> NaN
      [] tok.j = "number" -> float(Str(tok.digits)).value

JsonDumpRecord(rec) ==
    [datetime_utc |-> JsonToken(rec.datetime_utc),
     distance_au |-> JsonToken(rec.distance_au),
     velocity_km_s |-> JsonToken(rec.velocity_km_s),
     neo |-> [designation |-> JsonToken(rec.neo.designation),
              name |-> JsonToken(rec.neo.name),
              diameter_km |-> JsonToken(rec.neo.diameter_km),
              potentially_hazardous |-> JsonToken(rec.neo.potentially_hazardous)]]

JsonLoadRecord(doc) ==
    [datetime_utc |-> JsonValue(doc.datetime_utc),
     distance_au |-> JsonValue(doc.distance_au),
     velocity_km_s |-> JsonValue(doc.velocity_km_s),
     neo |-> [designation |-> JsonValue(doc.neo.designation),
              name |-> JsonValue(doc.neo.name),
              diameter_km |-> JsonValue(doc.neo.diameter_km),
              potentially_hazardous |-> JsonValue(doc.neo.potentially_hazardous)]]

\* json.dump(data, f): the array of encoded records; json.load of that text.
JsonDump(data) == [i \in 1..Len(data) |-> JsonDumpRecord(data[i])]
JsonLoad(text) == [i \in 1..Len(text) |-> JsonLoadRecord(text[i])]

(***************************************************************************)
(* write.py: write_to_csv                                                  *)
(***************************************************************************)
fieldnames ==
    <<"datetime_utc", "distance_au", "velocity_km_s",
      "designation", "name", "diameter_km", "potentially_hazardous">>

\* The row of one approach; reading an attribute of an unset neo raises
\* AttributeError.  The cells are then converted as csv.writer writes them.
CsvRow(ca) ==
    IF ca.neo = None THEN Raise("AttributeError")
    ELSE Return(<<datetime_to_str(ca.time),
                  CsvCell(ca.distance),
                  CsvCell(ca.velocity),
                  CsvCell(ca.neo.designation),
                  CsvCell(IF ca.neo.name = None THEN Str("") ELSE ca.neo.name),
                  CsvCell(IF ca.neo.diameter = None THEN Str("") ELSE ca.neo.diameter),
                  CsvCell(Str(IF ca.neo.hazardous THEN "True" ELSE "False"))>>)

\* The loop writes each row as soon as it is built: the rows before a failing
\* approach are in the file when the error leaves the with block.
RECURSIVE CsvRows(_, _)
CsvRows(rs, f) ==
    IF rs = <<>> THEN [err |-> "", file |-> f]
    ELSE LET row == CsvRow(Head(rs)) IN
         IF row.err # "" THEN [err |-> row.err, file |-> f]
         ELSE CsvRows(Tail(rs), [f EXCEPT !.text = Append(@, row.value)])

write_to_csv(rs) ==
    CsvRows(rs, [OpenForWriting EXCEPT !.text = <<fieldnames>>])

(***************************************************************************)
(* write.py: write_to_json                                                 *)
(***************************************************************************)
\* The dict appended for one approach, its entries evaluated in order.
JsonRecord(ca) ==
    IF ca.neo = None THEN Raise("AttributeError")
    ELSE Return(
        [datetime_utc |-> Str(datetime_to_str(ca.time)),
         distance_au |-> ca.distance,
         velocity_km_s |-> ca.velocity,
         neo |-> [designation |-> ca.neo.designation,
                  name |-> IF ca.neo.name = None THEN Str("") ELSE ca.neo.name,
                  diameter_km |-> IF ca.neo.diameter = None THEN Str("NaN")
                                  ELSE ca.neo.diameter,
                  potentially_hazardous |->
                      Bool(IF ca.neo.hazardous THEN FALSE ELSE TRUE)]])

\* Variant: each record is inserted at the front of data.
RECURSIVE JsonRecords_Prepend(_, _)
JsonRecords_Prepend(rs, data) ==
    IF rs = <<>> THEN Return(data)
    ELSE LET rec == JsonRecord(Head(rs)) IN
         IF rec.err # "" THEN [err |-> rec.err, value |-> data]
         ELSE JsonRecords_Prepend(Tail(rs), <<rec.value>> \o data)

\* The for loop: data grows by one record per approach, or the first error.
RECURSIVE JsonRecords(_, _)
JsonRecords(rs, data) ==
    IF rs = <<>> THEN Return(data)
    ELSE LET rec == JsonRecord(Head(rs)) IN
         IF rec.err # "" THEN [err |-> rec.err, value |-> data]
         ELSE JsonRecords(Tail(rs), Append(data, rec.value))

\* Variant: the records built before a failure are dumped all the same.
write_to_json_Incremental(rs) ==
    LET data == JsonRecords(rs, <<>>) IN
    [err |-> data.err, file |-> [OpenForWriting EXCEPT !.text = <<JsonDump(data.value)>>]]

\* The file is opened (and so emptied) first; json.dump runs once, after the
\* loop, and is not reached when the loop raises.
write_to_json(rs) ==
    LET data == JsonRecords(rs, <<>>) IN
    IF data.err # "" THEN [err |-> data.err, file |-> OpenForWriting]
    ELSE [err |-> "", file |-> [OpenForWriting EXCEPT !.text = <<JsonDump(data.value)>>]]

(***************************************************************************)
(* The result sequences of the model: approaches as load_approaches builds *)
(* them, linked to an object as load_neos builds it or left unlinked.  The *)
(* object's approaches, its back references, are not read by write.py and  *)
(* are left as constructed.                                                *)
(***************************************************************************)
Eros == NearEarthObject(Str("433"), Str("Eros"), Float(1684000), FALSE)
Ganymed == NearEarthObject(Str("1036"), None, NaN, TRUE)

Approaches ==
    {[_designation |-> IF neo = None THEN Str("999") ELSE neo.designation,
      time |-> time, distance |-> distance, velocity |-> Float(557000), neo |-> neo] :
        time \in {datetime(1900, 12, 27, 1, 30), datetime(2020, 1, 1, 9, 5)},
        distance \in {Float(9240), Float(50000)},
        neo \in {None, Eros, Ganymed}}

(***************************************************************************)
(* Operations                                                              *)
(***************************************************************************)
\* load_neos(neo_csv_path) on the tabular file.
LoadNeos ==
    /\ ~neoResult.called
    /\ LET r == load_neos(neoFile)
       IN  neoResult' = [called |-> TRUE, err |-> r.err,
                         value |-> IF r.err = "" THEN r.value ELSE <<>>]
    /\ UNCHANGED <<neoFile, fullnameRead, cadDoc, cadResult,
                   results, jsonFile, jsonCall, csvFile, csvCall>>

\* Reading neo.fullname on the i-th loaded object.
ReadFullname(i) ==
    /\ neoResult.called /\ neoResult.err = ""
    /\ i \in 1..Len(neoResult.value)
    /\ LET r == fullname(neoResult.value[i])
       IN  /\ fullnameRead' = [called |-> TRUE, idx |-> i, err |-> r.err, value |-> r.value]
           /\ neoResult' = [neoResult EXCEPT !.value[i] = r.self]
    /\ UNCHANGED <<neoFile, cadDoc, cadResult,
                   results, jsonFile, jsonCall, csvFile, csvCall>>

\* load_approaches(cad_json_path) on the structured document.
LoadApproaches ==
    /\ ~cadResult.called
    /\ LET r == load_approaches(cadDoc)
       IN  cadResult' = [called |-> TRUE, err |-> r.err,
                         value |-> IF r.err = "" THEN r.value ELSE <<>>]
    /\ UNCHANGED <<neoFile, neoResult, fullnameRead, cadDoc,
                   results, jsonFile, jsonCall, csvFile, csvCall>>

\* write_to_json(results, filename).
WriteToJson ==
    /\ ~jsonCall.called
    /\ LET r == write_to_json(results)
       IN  /\ jsonCall' = [called |-> TRUE, err |-> r.err]
           /\ jsonFile' = r.file
    /\ UNCHANGED <<neoFile, neoResult, fullnameRead, cadDoc, cadResult,
                   results, csvFile, csvCall>>

\* write_to_csv(results, filename).
WriteToCsv ==
    /\ ~csvCall.called
    /\ LET r == write_to_csv(results)
       IN  /\ csvCall' = [called |-> TRUE, err |-> r.err]
           /\ csvFile' = r.file
    /\ UNCHANGED <<neoFile, neoResult, fullnameRead, cadDoc, cadResult,
                   results, jsonFile, jsonCall>>

(***************************************************************************)
(* Specifications: one per component, the other components idle.           *)
(***************************************************************************)
NoWriteCall == [called |-> FALSE, err |-> ""]
EmptyNeoFile == [header |-> <<>>, rows |-> <<>>]
EmptyCadDoc == [hasFields |-> TRUE, fields |-> <<>>, data |-> <<>>]

IdleNeos ==
    /\ neoFile = EmptyNeoFile
    /\ neoResult = [NotCalled EXCEPT !.called = TRUE]
    /\ fullnameRead = NotRead

IdleApproaches ==
    /\ cadDoc = EmptyCadDoc
    /\ cadResult = [NotCalled EXCEPT !.called = TRUE]

IdleWrite ==
    /\ results = <<>>
    /\ jsonFile = NoFile /\ jsonCall = [NoWriteCall EXCEPT !.called = TRUE]
    /\ csvFile = NoFile /\ csvCall = [NoWriteCall EXCEPT !.called = TRUE]

InitNeos ==
    /\ \E h \in Headers : \E n \in 0..MaxRows : \E rows \in SeqsOfLen(RowsOf(h), n) :
          neoFile = [header |-> h, rows |-> rows]
    /\ neoResult = NotCalled
    /\ fullnameRead = NotRead
    /\ IdleApproaches /\ IdleWrite

NextNeos == LoadNeos \/ \E i \in 1..MaxRows : ReadFullname(i)

SpecNeos == InitNeos /\ [][NextNeos]_vars

InitApproaches ==
    /\ \E fs \in FieldLists : \E n \in 0..MaxRecords : \E data \in SeqsOfLen(RecordsOf(fs), n) :
          \/ cadDoc = [hasFields |-> TRUE, fields |-> fs, data |-> data]
          \/ /\ \A i \in 1..n : Len(data[i]) = Len(fs)
             /\ cadDoc = [hasFields |-> FALSE, fields |-> <<>>, data |-> data]
    /\ cadResult = NotCalled
    /\ IdleNeos /\ IdleWrite

NextApproaches == LoadApproaches

SpecApproaches == InitApproaches /\ [][NextApproaches]_vars

InitWrite ==
    /\ \E n \in 0..MaxResults : results \in SeqsOfLen(Approaches, n)
    /\ jsonFile \in {NoFile, OldFile} /\ jsonCall = NoWriteCall
    /\ csvFile \in {NoFile, OldFile} /\ csvCall = NoWriteCall
    /\ IdleNeos /\ IdleApproaches

NextWrite == WriteToJson \/ WriteToCsv

SpecWrite == InitWrite /\ [][NextWrite]_vars

(***************************************************************************)
(* Properties                                                              *)
(***************************************************************************)
\* The rows of the tabular file the reader yields: every line but the header
\* and the blank lines.
DataRows(f) == SelectSeq(f.rows, LAMBDA r : r # <<>>)

\* The raw value of data row i under a column of the header (the headers of
\* the model name no column twice): the cell at the column's position, None
\* when the row stops before it.
RawCell(f, i, col) ==
    LET j == CHOOSE k \in 1..Len(f.header) : f.header[k] = col
        row == DataRows(f)[i]
    IN  IF j <= Len(row) THEN Str(row[j]) ELSE None

\* The value of the i-th value array that the field list pairs with a name.
FieldCell(doc, i, name) ==
    LET k == CHOOSE j \in 1..Len(doc.fields) : doc.fields[j] = name
    IN  IF k <= Len(doc.data[i]) THEN doc.data[i][k] ELSE None

NeosLoaded == neoResult.called /\ neoResult.err = ""
ApproachesLoaded == cadResult.called /\ cadResult.err = ""
JsonWritten == jsonCall.called /\ jsonCall.err = ""
CsvWritten == csvCall.called /\ csvCall.err = ""

\* C1: every record write_to_json emits carries, as neo.potentially_hazardous,
\* the hazardous attribute of the approach's linked object, as the row
\* write_to_csv emits for the same approach does.
C1_JsonFlagMirrorsHazardous ==
    JsonWritten =>
        \A i \in 1..Len(results) :
            LET flag == JsonLoad(jsonFile.text[1])[i].neo.potentially_hazardous
            IN  /\ flag = Bool(results[i].neo.hazardous)
                /\ CsvWritten => (csvFile.text[i + 1][7] = "True" <=> flag = Bool(TRUE))

\* C2: an object load_neos returns is hazardous if and only if the raw 'pha'
\* value of its row is exactly "Y"; an empty or absent value gives false.
C2_HazardousIffMarker ==
    NeosLoaded =>
        \A i \in 1..Len(neoResult.value) :
            neoResult.value[i].hazardous <=> (RawCell(neoFile, i, "pha") = Str("Y"))

C2_Witness ==
    /\ NeosLoaded
    /\ \E i, j \in 1..Len(neoResult.value) :
          /\ RawCell(neoFile, i, "pha") = Str("Y") /\ neoResult.value[i].hazardous
          /\ RawCell(neoFile, j, "pha") = None /\ ~neoResult.value[j].hazardous

\* C3: a blank name field gives the name None, never '', any other name field
\* gives the raw name; a blank diameter field gives a float not equal to
\* itself, never None, any other diameter field gives the number it denotes.
C3_BlankNameAndDiameter ==
    NeosLoaded =>
        \A i \in 1..Len(neoResult.value) :
            LET neo == neoResult.value[i]
                name == RawCell(neoFile, i, "name")
                diameter == RawCell(neoFile, i, "diameter")
            IN  /\ name = Str("") => neo.name = None
                /\ (name.t = "str" /\ name # Str("")) => neo.name = name
                /\ neo.name # Str("")
                /\ diameter = Str("") =>
                      /\ neo.diameter.t = "float"
                      /\ ~PyEq(neo.diameter, neo.diameter)
                      /\ neo.diameter # None
                /\ (diameter.t = "str" /\ diameter # Str("")) =>
                      /\ FloatLiteral(diameter.s) >= 0
                      /\ neo.diameter = Float(FloatLiteral(diameter.s))

C3_Witness ==
    /\ NeosLoaded
    /\ \E i, j \in 1..Len(neoResult.value) :
          /\ RawCell(neoFile, i, "name") = Str("")
          /\ RawCell(neoFile, i, "diameter") = Str("")
          /\ RawCell(neoFile, j, "name") = Str("Eros")
          /\ RawCell(neoFile, j, "diameter") = Str("16.84")

\* C4: load_neos returns one object per data row, in file order, the i-th with
\* the i-th row's 'pdes' as designation, and each with no approaches.
C4_OnePerRowInOrder ==
    NeosLoaded =>
        /\ Len(neoResult.value) = Len(DataRows(neoFile))
        /\ \A i \in 1..Len(neoResult.value) :
              /\ neoResult.value[i].designation = RawCell(neoFile, i, "pdes")
              /\ neoResult.value[i].approaches = <<>>

C4_Witness ==
    /\ NeosLoaded
    /\ Len(neoResult.value) = 2
    /\ neoResult.value[1].designation = Str("1036")
    /\ neoResult.value[2].designation = Str("433")

\* C5: load_approaches returns one approach per entry of the data array, in
\* order, the i-th built from the values the field list pairs with 'des',
\* 'cd', 'dist' and 'v_rel' wherever those names stand, its neo unset.
C5_OnePerRecordByName ==
    ApproachesLoaded =>
        /\ Len(cadResult.value) = Len(cadDoc.data)
        /\ \A i \in 1..Len(cadResult.value) :
              LET ca == cadResult.value[i] IN
              /\ ca._designation = FieldCell(cadDoc, i, "des")
              /\ ca.time = cd_to_datetime(FieldCell(cadDoc, i, "cd")).value
              /\ FieldCell(cadDoc, i, "dist").t = "str"
              /\ ca.distance = Float(FloatLiteral(FieldCell(cadDoc, i, "dist").s))
              /\ FieldCell(cadDoc, i, "v_rel").t = "str"
              /\ ca.velocity = Float(FloatLiteral(FieldCell(cadDoc, i, "v_rel").s))
              /\ ca.neo = None

C5_Witness ==
    /\ ApproachesLoaded
    /\ cadDoc.fields \in {<<"h", "v_rel", "dist", "cd", "des">>,
                          <<"des", "cd", "v_rel", "dist", "h">>}
    /\ Len(cadResult.value) = 2
    /\ cadResult.value[1]._designation # cadResult.value[2]._designation
    /\ cadResult.value[1].time # cadResult.value[2].time

\* C6: load_approaches fails whenever the field list is missing or some value
\* array is shorter or longer than the field list.
C6_LengthMismatchFails ==
    (/\ cadResult.called
     /\ \/ ~cadDoc.hasFields
        \/ \E i \in 1..Len(cadDoc.data) : Len(cadDoc.data[i]) # Len(cadDoc.fields))
        => cadResult.err # ""

\* C7: load_neos fails whenever the header lacks one of the expected columns,
\* for any number of data rows, zero included.
C7_MissingColumnFails ==
    (neoResult.called /\ ~(ExpectedColumns \subseteq Range(neoFile.header)))
        => neoResult.err # ""

\* C8: the array write_to_json writes, read back, has one record per approach
\* and in the same order, each with the approach's linked designation,
\* distance, velocity and formatted time.
C8_JsonIsOrderedProjection ==
    JsonWritten =>
        LET reread == JsonLoad(jsonFile.text[1]) IN
        /\ Len(jsonFile.text) = 1
        /\ Len(reread) = Len(results)
        /\ \A i \in 1..Len(results) :
              /\ reread[i].neo.designation = results[i].neo.designation
              /\ reread[i].distance_au = results[i].distance
              /\ reread[i].velocity_km_s = results[i].velocity
              /\ reread[i].datetime_utc = Str(datetime_to_str(results[i].time))

C8_Witness ==
    /\ JsonWritten
    /\ Len(results) = 2
    /\ results[1].neo.designation # results[2].neo.designation
    /\ results[1].time # results[2].time
    /\ results[1].distance # results[2].distance

\* C9: reading fullname of an object whose name is present succeeds, returns
\* the designation followed by the name and leaves the object as ingested.
C9_FullnameReads ==
    (fullnameRead.called /\ neoResult.value[fullnameRead.idx].name.t = "str") =>
        LET neo == neoResult.value[fullnameRead.idx] IN
        /\ fullnameRead.err = ""
        /\ fullnameRead.value = Str(neo.designation.s \o neo.name.s)
        /\ neo = load_neos(neoFile).value[fullnameRead.idx]

\* C10: when projecting some approach fails, write_to_json passes the error on
\* and the destination holds no record, not even of the approaches before the
\* failing one.
C10_JsonAllOrNothing ==
    (jsonCall.called /\ \E i \in 1..Len(results) : results[i].neo = None) =>
        /\ jsonCall.err = "AttributeError"
        /\ jsonFile = OpenForWriting

C10_Witness ==
    /\ jsonCall.called
    /\ Len(results) = 2
    /\ results[1].neo # None
    /\ results[2].neo = None
    /\ jsonCall.err # ""

====
